---- MODULE Spec2Model ----
(***************************************************************************)
(* PyLogic: Boolean expression nodes (Variable / Expression and the older  *)
(* LogicVar / LogicNode), their evaluation and renderings, and the trees   *)
(* (Tree / LogicTree) built from text by the Lark grammar BOOLEAN.         *)
(*                                                                         *)
(* Conventions of the model                                                *)
(*  - a Python str is a sequence of lexemes: a word, a punctuation mark,   *)
(*    or one blank " ";  len() of it is the sum of the lexemes' lengths.   *)
(*  - a Python dict is a function from its keys; `k in d` is k \in DOMAIN. *)
(*  - an object is a record whose field cls names its class.               *)
(*  - a call returns an outcome [raised, value]: raised = "" on a normal   *)
(*    return, else the name of the exception that left the call.           *)
(***************************************************************************)
EXTENDS Integers, Sequences, FiniteSets, TLC

VARIABLES
    node,       \* the Variable / Expression object the session holds
    text,       \* the expression text handed to Tree(...) / LogicTree(...)
    tree,       \* the Tree / LogicTree object built from text
    ret         \* the last call made and its outcome

vars == <<node, text, tree, ret>>

\* ------------------------------------------------------------------ bounds

\* Operation nodes in a tree built with the constructors.
MaxOps == 2

\* Binary operators in a generated expression text.
MaxOperators == 2

\* NOT words before one identifier of a generated expression text.
MaxNots == 1

\* ------------------------------------------------------------ Python values

None == [cls |-> "NoneType"]

Ok(v) == [raised |-> "", value |-> v]

Raise(e) == [raised |-> e, value |-> None]

\* The six operator codes of Expression.evaluate's chain, in its order.
Operators == <<"OR", "NOR", "AND", "NAND", "XOR", "XNOR">>

OperatorSet == {Operators[i] : i \in DOMAIN Operators}

\* ------------------------------------------------------------- variable.py

\* Variable(variable, has_not)
Variable_new(variable, has_not) ==
    [cls |-> "Variable", variable |-> variable, has_not |-> has_not]

\* Variable_init reading has_not under another key: the flag is lost.
Variable_init_loses_not(json) ==
    IF "variable" \notin DOMAIN json
    THEN Raise("AttributeError")
    ELSE Ok(Variable_new(json["variable"],
                         IF "not" \in DOMAIN json THEN json["not"] ELSE FALSE))

\* Variable(json = json)
Variable_init(json) ==
    IF "variable" \notin DOMAIN json
    THEN Raise("AttributeError")
    ELSE Ok(Variable_new(json["variable"],
                         IF "has_not" \in DOMAIN json THEN json["has_not"] ELSE FALSE))

Variable_str(self) ==
    IF self.has_not THEN <<"NOT", " ", self.variable>> ELSE <<self.variable>>

Variable_functional(self) ==
    IF self.has_not THEN <<"not", "(", self.variable, ")">> ELSE <<self.variable>>

Variable_evaluate(self, truth_values) ==
    IF self.variable \notin DOMAIN truth_values
    THEN Raise("KeyError")
    ELSE Ok(truth_values[self.variable] # self.has_not)

\* ----------------------------------------------------------- expression.py

\* Expression(operator, left, right, has_not)
Expression_new(operator, left, right, has_not) ==
    [cls |-> "Expression", operator |-> operator,
     left |-> left, right |-> right, has_not |-> has_not]

\* Expression(json = json)
RECURSIVE Expression_init(_)
Expression_init(json) ==
    IF "operator" \notin DOMAIN json /\ "left" \notin DOMAIN json
                                     /\ "right" \notin DOMAIN json
    THEN Raise("KeyError")
    ELSE IF "operator" \notin DOMAIN json THEN Raise("KeyError")   \* json["operator"]
    ELSE IF "left" \notin DOMAIN json THEN Raise("KeyError")       \* json["left"]
    ELSE
      LET left == IF "variable" \in DOMAIN json["left"]
                  THEN Variable_init(json["left"])
                  ELSE Expression_init(json["left"])
      IN IF left.raised # "" THEN left
         ELSE IF "right" \notin DOMAIN json THEN Raise("KeyError") \* json["right"]
         ELSE
           LET right == IF "variable" \in DOMAIN json["right"]
                        THEN Variable_init(json["right"])
                        ELSE Expression_init(json["right"])
           IN IF right.raised # "" THEN right
              ELSE Ok(Expression_new(
                        json["operator"], left.value, right.value,
                        IF "has_not" \in DOMAIN json THEN json["has_not"] ELSE FALSE))

\* Expression defines no __str__: str() of it is object's default rendering,
\* one lexeme that names the class (and, in Python, the object's address).
Expression_str(self) == <<"<expression.Expression object>">>

\* self.left.functional(), self.left.evaluate(...): the method of the
\* operand's own class.
RECURSIVE functional(_)
RECURSIVE evaluate(_, _)

Expression_functional(self) ==
    LET left == functional(self.left)
    IN IF left.raised # "" THEN left
       ELSE LET right == functional(self.right)
            IN IF right.raised # "" THEN right
               ELSE LET call == <<self.operator, "(">> \o left.value
                                  \o <<",", " ">> \o right.value \o <<")">>
                    IN IF self.has_not
                       THEN Ok(<<"not", "(">> \o call \o <<")">>)
                       ELSE Ok(call)

\* Combine with the XNOR branch a copy of the XOR branch.
Combine_xnor_as_xor(operator, left, right) ==
    IF operator = "OR" THEN left \/ right
    ELSE IF operator = "NOR" THEN ~(left \/ right)
    ELSE IF operator = "AND" THEN left /\ right
    ELSE IF operator = "NAND" THEN ~(left /\ right)
    ELSE IF operator = "XOR" THEN left # right
    ELSE IF operator = "XNOR" THEN left # right
    ELSE FALSE

\* The if / elif chain of evaluate: the operator's combination of the two
\* operand values; False when no branch matches.
Combine(operator, left, right) ==
    IF operator = "OR" THEN left \/ right
    ELSE IF operator = "NOR" THEN ~(left \/ right)
    ELSE IF operator = "AND" THEN left /\ right
    ELSE IF operator = "NAND" THEN ~(left /\ right)
    ELSE IF operator = "XOR" THEN left # right
    ELSE IF operator = "XNOR" THEN ~(left # right)
    ELSE FALSE

\* Expression_evaluate with Python's lazy `or` / `and` applied to the
\* operands themselves: the right operand is not evaluated when the left
\* one decides an OR or an AND.
Expression_evaluate_lazy(self, truth_values) ==
    LET left == evaluate(self.left, truth_values)
    IN IF left.raised # "" THEN left
       ELSE IF self.operator = "OR" /\ left.value THEN Ok(self.has_not # TRUE)
       ELSE IF self.operator = "AND" /\ ~left.value THEN Ok(self.has_not # FALSE)
       ELSE LET right == evaluate(self.right, truth_values)
            IN IF right.raised # "" THEN right
               ELSE Ok(self.has_not # Combine(self.operator, left.value, right.value))

Expression_evaluate(self, truth_values) ==
    LET left == evaluate(self.left, truth_values)
    IN IF left.raised # "" THEN left
       ELSE LET right == evaluate(self.right, truth_values)
            IN IF right.raised # "" THEN right
               ELSE Ok(self.has_not # Combine(self.operator, left.value, right.value))

\* ------------------------------------------------------------ logic_var.py

\* LogicVar(**args): the closing check and assignments of __init__.  A
\* parameter that is None (both default to None) is a key args lacks.
LogicVar_new(args) ==
    IF "value" \in DOMAIN args /\ "has_not" \in DOMAIN args
    THEN Ok([cls |-> "LogicVar", value |-> args["value"], has_not |-> args["has_not"]])
    ELSE Raise("ValueError")

\* LogicVar(json = json)
LogicVar_init(json) ==
    IF "value" \in DOMAIN json /\ "has_not" \in DOMAIN json
    THEN LogicVar_new([value |-> json["value"], has_not |-> json["has_not"]])
    ELSE Raise("KeyError")

LogicVar_str(self) ==
    (IF self.has_not THEN <<"NOT", " ">> ELSE <<>>) \o <<self.value>>

\* truth_values[self.get_value()]: a dict lookup, KeyError when absent
LogicVar_evaluate(self, truth_values) ==
    IF self.value \notin DOMAIN truth_values
    THEN Raise("KeyError")
    ELSE IF self.has_not THEN Ok(~truth_values[self.value])
                         ELSE Ok(truth_values[self.value])

\* ----------------------------------------------------------- logic_node.py

\* LogicNode(**args): the closing check and assignments of __init__.  A
\* parameter that is None is a key args lacks; has_not defaults to False.
LogicNode_new(args) ==
    IF {"left", "operator", "right"} \subseteq DOMAIN args
    THEN Ok([cls |-> "LogicNode", left |-> args["left"],
             operator |-> args["operator"], right |-> args["right"],
             has_not |-> IF "has_not" \in DOMAIN args THEN args["has_not"] ELSE FALSE])
    ELSE Raise("ValueError")

\* LogicNode(json = json)
RECURSIVE LogicNode_init(_)
LogicNode_init(json) ==
    IF {"left", "operator", "right", "has_not"} \subseteq DOMAIN json
    THEN LET operator == json["operator"]
             has_not == IF operator \in {"NAND", "NOR", "XNOR"}
                        THEN ~json["has_not"] ELSE json["has_not"]
             left == IF "value" \notin DOMAIN json["left"]
                     THEN LogicNode_init(json["left"])
                     ELSE LogicVar_init(json["left"])
         IN IF left.raised # "" THEN left
            ELSE LET right == IF "value" \notin DOMAIN json["right"]
                              THEN LogicNode_init(json["right"])
                              ELSE LogicVar_init(json["right"])
                 IN IF right.raised # "" THEN right
                    ELSE LogicNode_new([left |-> left.value, operator |-> operator,
                                        right |-> right.value, has_not |-> has_not])
    ELSE Raise("KeyError")

\* str(self.get_left()), str(self.get_right()): the operand's own __str__
RECURSIVE str(_)

LogicNode_str(self) ==
    LET infix == str(self.left) \o <<" ", self.operator, " ">> \o str(self.right)
    IN IF ~self.has_not THEN infix
       ELSE <<"NOT", "(">> \o infix \o <<")">>

\* evaluation is assigned for OR and AND only; reading it for any other
\* operator is an UnboundLocalError
LogicNode_evaluate(self, truth_values) ==
    LET left == evaluate(self.left, truth_values)
    IN IF left.raised # "" THEN left
       ELSE LET right == evaluate(self.right, truth_values)
            IN IF right.raised # "" THEN right
               ELSE IF self.operator = "OR"
                    THEN Ok(IF self.has_not THEN ~(left.value \/ right.value)
                                            ELSE left.value \/ right.value)
               ELSE IF self.operator = "AND"
                    THEN Ok(IF self.has_not THEN ~(left.value /\ right.value)
                                            ELSE left.value /\ right.value)
               ELSE Raise("UnboundLocalError")

\* str.lower() on the operator codes the classes are given
lower(s) ==
    CASE s = "OR" -> "or"     [] s = "NOR" -> "nor"
      [] s = "AND" -> "and"   [] s = "NAND" -> "nand"
      [] s = "XOR" -> "xor"   [] s = "XNOR" -> "xnor"
      [] OTHER -> s

LogicNode_functional(self) ==
    LET left == functional(self.left)
    IN IF left.raised # "" THEN left
       ELSE LET right == functional(self.right)
            IN IF right.raised # "" THEN right
               ELSE LET expr == <<lower(self.operator), "(">> \o left.value
                                  \o <<",", " ">> \o right.value \o <<")">>
                    IN IF self.has_not
                       THEN Ok(<<"not", "(">> \o expr \o <<")">>)
                       ELSE Ok(expr)

\* --------------------------------------------------------- method dispatch

\* str(obj)
str(obj) ==
    CASE obj.cls = "Variable" -> Variable_str(obj)
      [] obj.cls = "Expression" -> Expression_str(obj)
      [] obj.cls = "LogicVar" -> LogicVar_str(obj)
      [] obj.cls = "LogicNode" -> LogicNode_str(obj)

\* obj.functional(); LogicVar has no such method
functional(obj) ==
    CASE obj.cls = "Variable" -> Ok(Variable_functional(obj))
      [] obj.cls = "Expression" -> Expression_functional(obj)
      [] obj.cls = "LogicVar" -> Raise("AttributeError")
      [] obj.cls = "LogicNode" -> LogicNode_functional(obj)

\* obj.evaluate(truth_values)
evaluate(obj, truth_values) ==
    CASE obj.cls = "Variable" -> Variable_evaluate(obj, truth_values)
      [] obj.cls = "Expression" -> Expression_evaluate(obj, truth_values)
      [] obj.cls = "LogicVar" -> LogicVar_evaluate(obj, truth_values)
      [] obj.cls = "LogicNode" -> LogicNode_evaluate(obj, truth_values)

\* ------------------------------------------------- tree.py: Tree.BOOLEAN

\* A text is the sequence of its words, blanks dropped (%ignore WS).  The
\* words the model writes, in the order Python's str comparison gives
\* them (list.sort() in Tree.__init__).
SortedWords ==
    <<"1", "AND", "And", "NAND", "NOR", "NOT", "Not", "OR", "Or", "XNOR", "XOR",
      "a", "ab", "and", "b", "c", "nand", "nor", "not", "or", "xnor", "xor">>

\* The words that start with a digit.
DIGIT == {"1"}

\* common.CNAME: a letter or "_", then letters, digits, "_".  Every other
\* word written here matches it: the dynamic lexer offers a word to every
\* terminal it matches, keyword or not.
CNAME == {SortedWords[i] : i \in DOMAIN SortedWords} \ DIGIT

Rank(word) == CHOOSE i \in DOMAIN SortedWords : SortedWords[i] = word

\* TILDE: "~" | "!" | "not" | "NOT"
TILDE == {"~", "!", "not", "NOT"}

\* The six binary rules, loosest first, each with the spellings of its
\* operator in the order the rule lists them.  Lark numbers a rule's
\* alternatives in that order, the alternative without operator last.
Rules == <<"orexpr", "andexpr", "xorexpr", "xnorexpr", "norexpr", "nandexpr">>

Spellings ==
    <<  <<"+", "|", "or", "OR">>,
        <<"*", "&", "and", "AND">>,
        <<"^", "xor", "XOR">>,
        <<"-^", "xnor", "XNOR">>,
        <<"-+", "nor", "NOR">>,
        <<"-*", "nand", "NAND">>  >>

\* "|" ~ 1..2 and "&" ~ 1..2: the literal once or twice, as one token or
\* as two tokens in a row (blanks between them are ignored like any other).
Twice == {"|", "&"}

\* The alternatives of a binary rule in the rule's order, each the
\* sequence of tokens that spells the operator.
RECURSIVE Alternatives(_)
Alternatives(spellings) ==
    IF spellings = <<>> THEN <<>>
    ELSE (IF Head(spellings) \in Twice
          THEN << <<Head(spellings)>>, <<Head(spellings), Head(spellings)>> >>
          ELSE << <<Head(spellings)>> >>)
         \o Alternatives(Tail(spellings))

TermLevel == Len(Rules) + 1

IsSpelling(level, word) ==
    \E n \in DOMAIN Spellings[level] : Spellings[level][n] = word

\* The alternatives of each binary rule.
RuleAlternatives ==
    [level \in DOMAIN Spellings |-> Alternatives(Spellings[level])]

\* words[k..] starts with alternative n of the rule of `level`, and an
\* operand's worth of words is left after it.
SpelledAt(words, level, n, k, j) ==
    LET tokens == RuleAlternatives[level][n]
    IN /\ k + Len(tokens) <= j
       /\ SubSeq(words, k, k + Len(tokens) - 1) = tokens

\* lark.Token and lark.Tree
Token(type, value) == [type |-> type, value |-> value]

LarkTree(data, children) == [data |-> data, children |-> children]

\* Derivations with the binary rules right-recursive (rule: next (OP rule)?):
\* a chain of one operator nests to the right.
RECURSIVE Derivations_right_recursive(_, _, _, _)
Derivations_right_recursive(words, level, i, j) ==
    IF i > j THEN {}
    ELSE IF level = TermLevel
    THEN (IF i = j /\ words[i] \in CNAME
          THEN {Token("IDENT", words[i])} ELSE {})
         \cup
         (IF words[i] \in TILDE
          THEN {LarkTree("nexpr", <<Token("TILDE", words[i]), e>>) :
                    e \in Derivations_right_recursive(words, 1, i + 1, j)}
          ELSE {})
         \cup
         (IF \/ words[i] = "(" /\ words[j] = ")"
             \/ words[i] = "[" /\ words[j] = "]"
          THEN Derivations_right_recursive(words, 1, i + 1, j - 1)
          ELSE {})
    ELSE LET alternatives == RuleAlternatives[level]
             Split(k, n) ==
                 IF SpelledAt(words, level, n, k, j)
                 THEN {LarkTree(Rules[level], <<l, r>>) :
                          l \in Derivations_right_recursive(words, level + 1, i, k - 1),
                          r \in Derivations_right_recursive(words, level, k + Len(alternatives[n]), j)}
                 ELSE {}
             splits == {split \in ((i + 1)..(j - 1)) \X DOMAIN alternatives :
                           Split(split[1], split[2]) # {}}
         IN IF splits = {}
            THEN Derivations_right_recursive(words, level + 1, i, j)
            ELSE LET first == CHOOSE split \in splits :
                                  \A other \in splits : split[2] <= other[2]
                 IN UNION {Split(split[1], split[2]) :
                              split \in {other \in splits : other[2] = first[2]}}

\* The derivations Lark's Earley parser (the default of Lark(...), with
\* ambiguity resolved) can return for words i..j as the rule of `level`.
\* Where a span has several derivations the parser keeps the alternative
\* the rule lists first; between two derivations by the same alternative
\* (two places to split at the same operator) the order is that of a hash
\* set, so either may come out.  A ?rule with one child is inlined;
\* literal operators and brackets are filtered out of the tree.
RECURSIVE Derivations(_, _, _, _)
Derivations(words, level, i, j) ==
    IF i > j THEN {}
    ELSE IF level = TermLevel
    THEN (IF i = j /\ words[i] \in CNAME
          THEN {Token("IDENT", words[i])} ELSE {})
         \cup
         (IF words[i] \in TILDE
          THEN {LarkTree("nexpr", <<Token("TILDE", words[i]), e>>) :
                    e \in Derivations(words, 1, i + 1, j)}
          ELSE {})
         \cup
         (IF \/ words[i] = "(" /\ words[j] = ")"
             \/ words[i] = "[" /\ words[j] = "]"
          THEN Derivations(words, 1, i + 1, j - 1)
          ELSE {})
    ELSE LET alternatives == RuleAlternatives[level]
             Split(k, n) ==
                 IF SpelledAt(words, level, n, k, j)
                 THEN {LarkTree(Rules[level], <<l, r>>) :
                          l \in Derivations(words, level, i, k - 1),
                          r \in Derivations(words, level + 1, k + Len(alternatives[n]), j)}
                 ELSE {}
             splits == {split \in ((i + 1)..(j - 1)) \X DOMAIN alternatives :
                           Split(split[1], split[2]) # {}}
         IN IF splits = {}
            THEN Derivations(words, level + 1, i, j)
            ELSE LET first == CHOOSE split \in splits :
                                  \A other \in splits : split[2] <= other[2]
                 IN UNION {Split(split[1], split[2]) :
                              split \in {other \in splits : other[2] = first[2]}}

\* %ignore WS: the words of a str
Words(expression) == SelectSeq(expression, LAMBDA c : c \notin {" ", "\n"})

\* Tree.BOOLEAN.parse(expression).children[0]: the start rule's one child,
\* for each parse Lark can return; no parse at all is an exception.
BOOLEAN_parse(expression) ==
    Derivations(Words(expression), 1, 1, Len(Words(expression)))

\* ------------------------------------------- tree.py: Tree.__create_dict

\* for variable in new: if variable not in variables: variables.append(variable)
RECURSIVE AppendNew(_, _)
AppendNew(variables, new) ==
    IF new = <<>> THEN variables
    ELSE AppendNew(IF \E n \in DOMAIN variables : variables[n] = Head(new)
                   THEN variables ELSE Append(variables, Head(new)),
                   Tail(new))

\* parse_tree.data[ : parse_tree.data.find("expr")].upper()
OperatorOf(data) ==
    CASE data = "orexpr" -> "OR"     [] data = "andexpr" -> "AND"
      [] data = "xorexpr" -> "XOR"   [] data = "xnorexpr" -> "XNOR"
      [] data = "norexpr" -> "NOR"   [] data = "nandexpr" -> "NAND"

\* The pair (expression, variables) Tree.__create_dict returns.
RECURSIVE Tree_create_dict(_)
Tree_create_dict(parse_tree) ==
    IF "data" \in DOMAIN parse_tree                 \* isinstance(.., LarkTree)
    THEN IF parse_tree.data # "nexpr"
         THEN LET left == Tree_create_dict(parse_tree.children[1])
                  right == Tree_create_dict(parse_tree.children[2])
              IN [expression |->
                      [operator |-> OperatorOf(parse_tree.data),
                       left |-> left.expression,
                       right |-> right.expression,
                       has_not |-> FALSE],
                  variables |-> AppendNew(<<>>, left.variables \o right.variables)]
         ELSE LET new == Tree_create_dict(parse_tree.children[2])
              IN [expression |->
                      [new.expression EXCEPT !["has_not"] = ~new.expression["has_not"]],
                  variables |-> AppendNew(<<>>, new.variables)]
    ELSE [expression |-> [variable |-> parse_tree.value, has_not |-> FALSE],
          variables |-> <<parse_tree.value>>]

\* list.sort() on words
RECURSIVE Insert(_, _)
Insert(sorted, word) ==
    IF sorted = <<>> THEN <<word>>
    ELSE IF Rank(word) < Rank(Head(sorted)) THEN <<word>> \o sorted
    ELSE <<Head(sorted)>> \o Insert(Tail(sorted), word)

\* Sort with the call to list.sort() left out.
Sort_skipped(list) == list

RECURSIVE Sort(_)
Sort(list) ==
    IF list = <<>> THEN <<>>
    ELSE Insert(Sort(SubSeq(list, 1, Len(list) - 1)), list[Len(list)])

\* ------------------------------------------------- tree.py: Tree.__init__

\* Tree(expression) for one parse Lark returns: the try block's body.
Tree_build(parse_tree) ==
    LET made == Tree_create_dict(parse_tree)
        variables == Sort(made.variables)
        root == IF "value" \in DOMAIN made.expression
                THEN Variable_init(made.expression)
                ELSE Expression_init(made.expression)
    IN IF root.raised # "" THEN Raise("ValueError")           \* except: raise
       ELSE Ok([cls |-> "Tree", root |-> root.value, variables |-> variables])

\* The outcomes of Tree(expression): one for each parse Lark can return,
\* ValueError when it returns none.
Tree_init(expression) ==
    IF BOOLEAN_parse(expression) = {} THEN {Raise("ValueError")}
    ELSE {Tree_build(parse_tree) : parse_tree \in BOOLEAN_parse(expression)}

\* ------------------------------------------------------ tree.py: methods

\* len() of a str
RECURSIVE len(_)
len(s) == IF s = <<>> THEN 0 ELSE Len(Head(s)) + len(Tail(s))

\* n copies of one character
RECURSIVE Repeat(_, _)
Repeat(char, n) == IF n <= 0 THEN <<>> ELSE <<char>> \o Repeat(char, n - 1)

\* separator.join(list) for a list of strs
RECURSIVE join(_, _)
join(separator, list) ==
    IF list = <<>> THEN <<>>
    ELSE IF Len(list) = 1 THEN list[1]
    ELSE list[1] \o separator \o join(separator, Tail(list))

\* digit.center(width) for a one-character digit: the odd blank goes right
center(digit, width) ==
    IF width <= 1 THEN <<digit>>
    ELSE Repeat(" ", (width - 1) \div 2) \o <<digit>>
         \o Repeat(" ", (width - 1) - ((width - 1) \div 2))

\* 2 ** n
RECURSIVE Pow2(_)
Pow2(n) == IF n = 0 THEN 1 ELSE 2 * Pow2(n - 1)

\* TruthValues with shift_amount = i: the first variable is the lowest bit.
TruthValues_lowest_first(variables, binary) ==
    [key \in {variables[p] : p \in DOMAIN variables} |->
        LET p == CHOOSE q \in DOMAIN variables :
                     /\ variables[q] = key
                     /\ \A r \in DOMAIN variables : variables[r] = key => r <= q
            shift_amount == p - 1
        IN (binary \div Pow2(shift_amount)) % 2 # 0]

\* The dict of row `binary`: variables[i] (0-based) is bit len - i - 1.
TruthValues(variables, binary) ==
    [key \in {variables[p] : p \in DOMAIN variables} |->
        LET p == CHOOSE q \in DOMAIN variables :
                     /\ variables[q] = key
                     /\ \A r \in DOMAIN variables : variables[r] = key => r <= q
            shift_amount == Len(variables) - (p - 1) - 1
        IN (binary \div Pow2(shift_amount)) % 2 # 0]

\* Tree.evaluate(): the list of rows, or the exception root.evaluate raised
Tree_evaluate(self) ==
    LET count == Pow2(Len(self.variables))
        row(binary) == evaluate(self.root, TruthValues(self.variables, binary))
    IN IF \E binary \in 0..(count - 1) : row(binary).raised # ""
       THEN row(CHOOSE binary \in 0..(count - 1) :
                    /\ row(binary).raised # ""
                    /\ \A b \in 0..(binary - 1) : row(b).raised = "")
       ELSE Ok([n \in 1..count |->
                  [truth_values |-> TruthValues(self.variables, n - 1),
                   truth_value |-> row(n - 1).value]])

Digit(bool) == IF bool THEN "1" ELSE "0"

\* Tree.get_table(as_list = as_list)
Tree_get_table(self, as_list) ==
    LET title == str(self.root)
        names == [p \in DOMAIN self.variables |-> <<self.variables[p]>>]
        header == <<"|", " ">> \o join(<<" ", "|", " ">>, names)
                  \o <<" ", "|", " ">> \o title \o <<" ", "|">>
        separator == <<"+", "-">>
                  \o join(<<"-", "+", "-">>,
                          [p \in DOMAIN names |-> Repeat("-", len(names[p]))])
                  \o <<"-", "+", "-">> \o Repeat("-", len(title)) \o <<"-", "+">>
        evaluations == Tree_evaluate(self)
        line(evaluation) ==
            <<"|", " ">>
            \o join(<<" ", "|", " ">>,
                    [p \in DOMAIN names |->
                        center(Digit(evaluation.truth_values[self.variables[p]]),
                               len(names[p]))])
            \o <<" ", "|", " ">>
            \o center(Digit(evaluation.truth_value), len(title)) \o <<" ", "|">>
    IN IF evaluations.raised # "" THEN evaluations
       ELSE LET values == join(<<"\n">>,
                               [n \in DOMAIN evaluations.value |->
                                   line(evaluations.value[n])])
            IN IF as_list THEN Ok(<<header, separator, values>>)
               ELSE Ok(header \o <<"\n">> \o separator \o <<"\n">> \o values)

\* quine_mccluskey.QM is not part of the repository: the strs its solve()
\* may return.
QMAnswers == {<<"a">>, <<"b">>, <<"a", "b">>, <<"b", "a">>}

\* Tree_simplify with the maxterm answer returned when the two answers are
\* equally long.
Tree_simplify_ties_to_maxterm(self, kwargs, minterm_qm, maxterm_qm) ==
    LET evaluations == Tree_evaluate(self)
    IN IF evaluations.raised # ""
       THEN [raised |-> evaluations.raised, value |-> None, calls |-> <<>>]
       ELSE
         LET rows == evaluations.value
             true_at_minterms ==
                 SelectSeq([n \in DOMAIN rows |-> n - 1],
                           LAMBDA decimal : rows[decimal + 1].truth_value)
             true_at_maxterms ==
                 SelectSeq([n \in DOMAIN rows |-> n - 1],
                           LAMBDA decimal : ~rows[decimal + 1].truth_value)
         IN [raised |-> "",
             calls |-> << [variables |-> self.variables,
                           true_at |-> true_at_minterms, is_maxterm |-> FALSE],
                          [variables |-> self.variables,
                           true_at |-> true_at_maxterms, is_maxterm |-> TRUE] >>,
             value |-> IF "get_minterm" \in DOMAIN kwargs
                       THEN (IF kwargs["get_minterm"] THEN minterm_qm ELSE maxterm_qm)
                       ELSE (IF len(maxterm_qm) <= len(minterm_qm)
                             THEN maxterm_qm ELSE minterm_qm)]

\* Tree.simplify(**kwargs), given what the two QM(...).solve() calls return:
\* the calls made, in order, and the str returned.  get_minterm is None
\* when kwargs lacks it.
Tree_simplify(self, kwargs, minterm_qm, maxterm_qm) ==
    LET evaluations == Tree_evaluate(self)
    IN IF evaluations.raised # ""
       THEN [raised |-> evaluations.raised, value |-> None, calls |-> <<>>]
       ELSE
         LET rows == evaluations.value
             true_at_minterms ==
                 SelectSeq([n \in DOMAIN rows |-> n - 1],
                           LAMBDA decimal : rows[decimal + 1].truth_value)
             true_at_maxterms ==
                 SelectSeq([n \in DOMAIN rows |-> n - 1],
                           LAMBDA decimal : ~rows[decimal + 1].truth_value)
         IN [raised |-> "",
             calls |-> << [variables |-> self.variables,
                           true_at |-> true_at_minterms, is_maxterm |-> FALSE],
                          [variables |-> self.variables,
                           true_at |-> true_at_maxterms, is_maxterm |-> TRUE] >>,
             value |-> IF "get_minterm" \in DOMAIN kwargs
                       THEN (IF kwargs["get_minterm"] THEN minterm_qm ELSE maxterm_qm)
                       ELSE (IF len(maxterm_qm) < len(minterm_qm)
                             THEN maxterm_qm ELSE minterm_qm)]

\* ------------------------------------------------------------ logic_tree.py

\* LogicTree.__create_dict: Tree.__create_dict with the leaf key "value"
RECURSIVE LogicTree_create_dict(_)
LogicTree_create_dict(parse_tree) ==
    IF "data" \in DOMAIN parse_tree
    THEN IF parse_tree.data # "nexpr"
         THEN LET left == LogicTree_create_dict(parse_tree.children[1])
                  right == LogicTree_create_dict(parse_tree.children[2])
              IN [expression |->
                      [left |-> left.expression,
                       operator |-> OperatorOf(parse_tree.data),
                       right |-> right.expression,
                       has_not |-> FALSE],
                  variables |-> AppendNew(<<>>, left.variables \o right.variables)]
         ELSE LET new == LogicTree_create_dict(parse_tree.children[2])
              IN [expression |->
                      [new.expression EXCEPT !["has_not"] = ~new.expression["has_not"]],
                  variables |-> AppendNew(<<>>, new.variables)]
    ELSE [expression |-> [value |-> parse_tree.value, has_not |-> FALSE],
          variables |-> <<parse_tree.value>>]

\* LogicTree(expression) for one parse Lark returns
LogicTree_build(parse_tree) ==
    LET made == LogicTree_create_dict(parse_tree)
        variables == Sort(made.variables)
        root == IF "value" \in DOMAIN made.expression
                THEN LogicVar_init(made.expression)
                ELSE LogicNode_init(made.expression)
    IN IF root.raised # "" THEN Raise("ValueError")
       ELSE Ok([cls |-> "LogicTree", expression |-> made.expression,
                root |-> root.value, variables |-> variables])

LogicTree_init(expression) ==
    IF BOOLEAN_parse(expression) = {} THEN {Raise("ValueError")}
    ELSE {LogicTree_build(parse_tree) : parse_tree \in BOOLEAN_parse(expression)}

\* LogicTree.evaluate, get_table and simplify repeat Tree's statements
\* (simplify calls QM(...).get_function() where Tree calls solve()).
LogicTree_evaluate(self) == Tree_evaluate(self)

LogicTree_get_table(self, as_list) == Tree_get_table(self, as_list)

LogicTree_simplify(self, kwargs, minterm_qm, maxterm_qm) ==
    Tree_simplify(self, kwargs, minterm_qm, maxterm_qm)

\* ------------------------------------------------------ interchange form

\* The nested mapping of a node: {variable, has_not} for a Variable,
\* {operator, left, right, has_not} for an Expression.
RECURSIVE to_interchange(_)
to_interchange(obj) ==
    IF obj.cls = "Variable"
    THEN [variable |-> obj.variable, has_not |-> obj.has_not]
    ELSE [operator |-> obj.operator, left |-> to_interchange(obj.left),
          right |-> to_interchange(obj.right), has_not |-> obj.has_not]

\* Variable(json = json) or Expression(json = json), as the mapping's keys
\* say (the choice Expression.__init__ makes for an operand)
from_interchange(json) ==
    IF "variable" \in DOMAIN json THEN Variable_init(json) ELSE Expression_init(json)

\* ----------------------------------------------------------------- inputs

\* Variable names and the truth_values dicts over them, complete or not.
Names == {"a", "b"}

Assignments == UNION {[keys -> BOOLEAN] : keys \in SUBSET Names}

\* Interchange mappings, whole or with keys missing: the dict
\* {"variable": "a", "has_not": True}, and the dict of an operation over
\* two such dicts, which also holds a "variable" key, each cut down to
\* every subset of its keys.
Restrict(dict, keys) == [key \in keys |-> dict[key]]

LeafMappings(name) ==
    {Restrict([variable |-> "a", value |-> "a", has_not |-> TRUE], keys) :
        keys \in SUBSET {name, "has_not"}}

\* An operator str that is none of the six codes: the "or" of main.py.
OtherOperators == {"or"}

Mappings(name) ==
    LeafMappings(name)
    \cup {Restrict([variable |-> "b", value |-> "b", operator |-> operator,
                    left |-> left, right |-> right, has_not |-> TRUE], keys) :
              operator \in {"OR"} \cup OtherOperators,
              left \in LeafMappings(name), right \in LeafMappings(name),
              keys \in SUBSET {name, "operator", "left", "right", "has_not"}}

\* Expression texts: an identifier under up to MaxNots NOTs, then up to
\* MaxOperators times an operator and another such operand ...
OperatorWords == {"or", "and", "xor", "xnor", "nor", "nand"}

Operands == {Repeat("not", k) \o <<name>> : k \in 0..MaxNots, name \in Names}

RECURSIVE Sentences(_)
Sentences(n) ==
    IF n = 0 THEN Operands
    ELSE {s \o <<w>> \o o : s \in Sentences(n - 1), w \in OperatorWords, o \in Operands}

\* ... and the texts the sources and their documentation work through.
Examples ==
    { <<"a", "or", "b">>,
      <<"not", "a">>,
      <<"not", "not", "a">>,
      <<"not", "not", "not", "a">>,
      <<"not", "a", "or", "b">>,
      <<"not", "(", "a", "or", "b", ")">>,
      <<"a", "or", "b", "and", "c">>,
      <<"a", "or", "b", "or", "c">>,
      <<"b", "or", "a", "or", "b">>,
      <<"a", "*", "(", "b", "+", "c", ")">>,
      <<"a", "and", "(", "b", "or", "c", ")">>,
      <<"a", "and", "b", "or", "a", "and", "c">>,
      <<"[", "a", "|", "b", "]", "&", "~", "c">>,
      <<"a", "+", "not", "b", "or", "c">>,
      <<"a", "+", "+", "b">>,
      <<"a", " ", "|", " ", "|", " ", "b">>,
      <<"a", " ", "&", "&", " ", "b">>,
      <<"a", "or", "and", "b">>,
      <<"(", "a", "or", "b">>,
      <<"a", "or", "b", ")">>,
      <<"(", "a", "or", "b", "]">>,
      <<"a", "$", "b">>,
      <<>>,
      <<" ">>,
      <<"ab", "or", "c">>,
      <<"1", "or", "a">> }

\* ... and a and b joined by each spelling of each operator, a or b under
\* each spelling of NOT, and the same with the words in mixed case.
MixedCase == {"And", "Or", "Not"}

SpellingTexts ==
    UNION {{<<"a">> \o RuleAlternatives[level][n] \o <<"b">> :
                n \in DOMAIN RuleAlternatives[level]} :
              level \in DOMAIN RuleAlternatives}
    \cup {<<"a", word, "b">> : word \in MixedCase}
    \cup {<<word, "a", "or", "b">> : word \in TILDE \cup MixedCase}

Texts == UNION {Sentences(n) : n \in 0..MaxOperators} \cup Examples \cup SpellingTexts

\* ------------------------------------------------------------------ state

NoCall == [call |-> "", arg |-> None, raised |-> "", value |-> None]

Called(call, arg, outcome) ==
    [call |-> call, arg |-> arg, raised |-> outcome.raised, value |-> outcome.value]

\* no call's result is held
Idle == ret.call = ""

RECURSIVE CountOps(_)
CountOps(obj) ==
    IF obj.cls \in {"Variable", "LogicVar"} THEN 0
    ELSE 1 + CountOps(obj.left) + CountOps(obj.right)

\* ------------------------------------------- a session on node objects

Init ==
    /\ node = None
    /\ text = <<>>
    /\ tree = None
    /\ ret = NoCall

\* node = Variable(name, has_not)
NewVariable ==
    \E name \in Names, has_not \in BOOLEAN :
        /\ Idle
        /\ node' = Variable_new(name, has_not)
        /\ ret' = NoCall
        /\ UNCHANGED <<text, tree>>

\* node = Expression(operator, node, Variable(..), has_not), or with the
\* operands the other way round
NewExpression ==
    \E operator \in OperatorSet \cup OtherOperators, has_not \in BOOLEAN,
       name \in Names, leaf_not \in BOOLEAN, on_left \in BOOLEAN :
        /\ node.cls # "NoneType"
        /\ Idle
        /\ CountOps(node) < MaxOps
        /\ node' = IF on_left
                   THEN Expression_new(operator, node,
                                       Variable_new(name, leaf_not), has_not)
                   ELSE Expression_new(operator, Variable_new(name, leaf_not),
                                       node, has_not)
        /\ ret' = NoCall
        /\ UNCHANGED <<text, tree>>

\* node.evaluate(truth_values)
Evaluate ==
    \E truth_values \in Assignments :
        /\ node.cls # "NoneType"
        /\ Idle
        /\ ret' = Called("evaluate", truth_values, evaluate(node, truth_values))
        /\ UNCHANGED <<node, text, tree>>

\* node.functional()
Functional ==
    /\ node.cls # "NoneType"
    /\ Idle
    /\ ret' = Called("functional", None, functional(node))
    /\ UNCHANGED <<node, text, tree>>

\* str(node)
Str ==
    /\ node.cls # "NoneType"
    /\ Idle
    /\ ret' = Called("str", None, Ok(str(node)))
    /\ UNCHANGED <<node, text, tree>>

\* the node read back from its interchange form
Reload ==
    /\ node.cls # "NoneType"
    /\ Idle
    /\ ret' = Called("from_interchange", to_interchange(node),
                     from_interchange(to_interchange(node)))
    /\ UNCHANGED <<node, text, tree>>

\* Variable(json = json) or Expression(json = json) on a mapping, at the
\* start of a session
Load ==
    \E json \in Mappings("variable") :
        /\ node.cls = "NoneType"
        /\ Idle
        /\ ret' = Called("load", json, from_interchange(json))
        /\ UNCHANGED <<node, text, tree>>

\* LogicVar(json = json) or LogicNode(json = json) on a mapping, chosen as
\* LogicNode.__init__ chooses for an operand
LoadLogic ==
    \E json \in Mappings("value") :
        /\ node.cls = "NoneType"
        /\ Idle
        /\ ret' = Called("load_logic", json,
                         IF "value" \in DOMAIN json THEN LogicVar_init(json)
                                                    ELSE LogicNode_init(json))
        /\ UNCHANGED <<node, text, tree>>

\* the result of the last call is dropped
Discard ==
    /\ ~Idle
    /\ ret' = NoCall
    /\ UNCHANGED <<node, text, tree>>

Next ==
    \/ Discard
    \/ NewVariable
    \/ NewExpression
    \/ Evaluate
    \/ Functional
    \/ Str
    \/ Reload
    \/ Load
    \/ LoadLogic

Spec == Init /\ [][Next]_vars

\* ------------------------------------------------ a session on a tree

InitTree ==
    /\ node = None
    /\ text \in Texts
    /\ tree = None
    /\ ret = NoCall

\* tree = Tree(text)
TreeNew ==
    /\ tree.cls = "NoneType"
    /\ Idle
    /\ \E outcome \in Tree_init(text) :
        /\ tree' = outcome.value
        /\ ret' = IF outcome.raised = "" THEN NoCall
                  ELSE Called("Tree", text, outcome)
    /\ UNCHANGED <<node, text>>

\* tree = LogicTree(text)
LogicTreeNew ==
    /\ tree.cls = "NoneType"
    /\ Idle
    /\ \E outcome \in LogicTree_init(text) :
        /\ tree' = outcome.value
        /\ ret' = IF outcome.raised = "" THEN NoCall
                  ELSE Called("LogicTree", text, outcome)
    /\ UNCHANGED <<node, text>>

\* tree.evaluate()
TreeEvaluate ==
    /\ tree.cls # "NoneType"
    /\ Idle
    /\ ret' = Called("evaluate", None,
                     IF tree.cls = "Tree" THEN Tree_evaluate(tree)
                                          ELSE LogicTree_evaluate(tree))
    /\ UNCHANGED <<node, text, tree>>

\* tree.get_table(as_list = as_list)
TreeGetTable ==
    \E as_list \in BOOLEAN :
        /\ tree.cls # "NoneType"
        /\ Idle
        /\ ret' = Called("get_table", [as_list |-> as_list],
                         IF tree.cls = "Tree" THEN Tree_get_table(tree, as_list)
                                              ELSE LogicTree_get_table(tree, as_list))
        /\ UNCHANGED <<node, text, tree>>

\* tree.simplify(), tree.simplify(get_minterm = True / False)
TreeSimplify ==
    \E kwargs \in {<<>>} \cup [{"get_minterm"} -> BOOLEAN],
       minterm_qm \in {answer \in QMAnswers : answer[1] = "a"},
       maxterm_qm \in {answer \in QMAnswers : answer[1] = "b"} :
        /\ tree.cls # "NoneType"
        /\ Idle
        /\ LET done == IF tree.cls = "Tree"
                       THEN Tree_simplify(tree, kwargs, minterm_qm, maxterm_qm)
                       ELSE LogicTree_simplify(tree, kwargs, minterm_qm, maxterm_qm)
           IN ret' = [call |-> "simplify",
                      arg |-> [kwargs |-> kwargs, calls |-> done.calls,
                               minterm_qm |-> minterm_qm, maxterm_qm |-> maxterm_qm],
                      raised |-> done.raised, value |-> done.value]
        /\ UNCHANGED <<node, text, tree>>

\* Tree.__str__ / LogicTree.__str__
Tree_str(self) == str(self.root)

\* str(tree)
TreeStr ==
    /\ tree.cls # "NoneType"
    /\ Idle
    /\ ret' = Called("str", None, Ok(Tree_str(tree)))
    /\ UNCHANGED <<node, text, tree>>

\* tree.root.functional()
TreeFunctional ==
    /\ tree.cls # "NoneType"
    /\ Idle
    /\ ret' = Called("functional", None, functional(tree.root))
    /\ UNCHANGED <<node, text, tree>>

\* Tree(str(tree)) / LogicTree(str(tree)): the display string parsed again
TreeOfStr ==
    /\ tree.cls # "NoneType"
    /\ Idle
    /\ \E outcome \in IF tree.cls = "Tree" THEN Tree_init(Tree_str(tree))
                                           ELSE LogicTree_init(Tree_str(tree)) :
        ret' = Called("parse(str)", Tree_str(tree), outcome)
    /\ UNCHANGED <<node, text, tree>>

NextTree ==
    \/ Discard
    \/ TreeNew
    \/ LogicTreeNew
    \/ TreeEvaluate
    \/ TreeGetTable
    \/ TreeSimplify
    \/ TreeStr
    \/ TreeFunctional
    \/ TreeOfStr

SpecTree == InitTree /\ [][NextTree]_vars

\* ================================================================ claims

\* The names of the leaves of a node.
IsLeaf(obj) == obj.cls \in {"Variable", "LogicVar"}

\* The operators of a node's operations.
RECURSIVE OperatorsIn(_)
OperatorsIn(obj) ==
    IF IsLeaf(obj) THEN {}
    ELSE {obj.operator} \cup OperatorsIn(obj.left) \cup OperatorsIn(obj.right)

RECURSIVE LeafNames(_)
LeafNames(obj) ==
    CASE obj.cls = "Variable" -> {obj.variable}
      [] obj.cls = "LogicVar" -> {obj.value}
      [] OTHER -> LeafNames(obj.left) \cup LeafNames(obj.right)

\* The operator table of the evaluator: the pairs (l, r) an operator is
\* true at.
TrueAt(operator) ==
    CASE operator = "OR" -> {<<TRUE, TRUE>>, <<TRUE, FALSE>>, <<FALSE, TRUE>>}
      [] operator = "NOR" -> {<<FALSE, FALSE>>}
      [] operator = "AND" -> {<<TRUE, TRUE>>}
      [] operator = "NAND" -> {<<TRUE, FALSE>>, <<FALSE, TRUE>>, <<FALSE, FALSE>>}
      [] operator = "XOR" -> {<<TRUE, FALSE>>, <<FALSE, TRUE>>}
      [] operator = "XNOR" -> {<<TRUE, TRUE>>, <<FALSE, FALSE>>}

\* C1: on a tree over the six operators and a complete assignment
\* evaluate returns, for a Leaf, assignment[name] XOR negated and, for an
\* Operation, the operator table's value at (evaluate(left),
\* evaluate(right)), XORed with negated.
C1_EvaluateContract ==
    (ret.call = "evaluate" /\ node.cls \in {"Variable", "Expression"}
                           /\ OperatorsIn(node) \subseteq OperatorSet
                           /\ LeafNames(node) \subseteq DOMAIN ret.arg)
    => /\ ret.raised = ""
       /\ IF node.cls = "Variable"
          THEN ret.value = (ret.arg[node.variable] # node.has_not)
          ELSE LET l == evaluate(node.left, ret.arg)
                   r == evaluate(node.right, ret.arg)
               IN /\ l.raised = "" /\ r.raised = ""
                  /\ ret.value = ((<<l.value, r.value>> \in TrueAt(node.operator))
                                  # node.has_not)

\* A negated XNOR over a nested operation was evaluated on a complete
\* assignment and came out true.
C1_Witness ==
    /\ ret.call = "evaluate"
    /\ node.cls = "Expression"
    /\ node.operator = "XNOR"
    /\ node.has_not
    /\ node.left.cls = "Expression"
    /\ DOMAIN ret.arg = Names
    /\ ret.raised = ""
    /\ ret.value = TRUE

\* C3: a node read back from its interchange form is the node: same kinds,
\* names, operators, operands and negated flags at every position.
C3_RoundTrip ==
    ret.call = "from_interchange"
    => /\ ret.raised = ""
       /\ ret.value = node

\* A negated operation over a nested operation and a negated leaf was
\* written and read back.
C3_Witness ==
    /\ ret.call = "from_interchange"
    /\ node.cls = "Expression"
    /\ node.has_not
    /\ node.left.cls = "Expression"
    /\ node.right.cls = "Variable"
    /\ node.right.has_not
    /\ ret.value = node

\* C6: evaluate raises the unbound-variable error (KeyError) whenever a
\* leaf of the node is missing from the assignment, whatever the other
\* operands' values.
C6_UnboundVariable ==
    (ret.call = "evaluate" /\ node.cls \in {"Variable", "Expression"}
                           /\ ~(LeafNames(node) \subseteq DOMAIN ret.arg))
    => ret.raised = "KeyError"

\* a OR b was evaluated with a true and b missing: the right operand could
\* not change the result, and the call raised.
C6_Witness ==
    /\ ret.call = "evaluate"
    /\ node.cls = "Expression"
    /\ node.operator = "OR"
    /\ node.left = Variable_new("a", FALSE)
    /\ node.right = Variable_new("b", FALSE)
    /\ DOMAIN ret.arg = {"a"}
    /\ ret.arg["a"] = TRUE
    /\ ret.raised = "KeyError"

\* The canonical display of a node: name or NOT name for a leaf,
\* left OP right or NOT (left OP right) for an operation.
RECURSIVE Display(_)
Display(obj) ==
    IF obj.cls \in {"Variable", "LogicVar"}
    THEN (IF obj.has_not THEN <<"NOT", " ">> ELSE <<>>) \o <<CHOOSE n \in LeafNames(obj) : TRUE>>
    ELSE LET infix == Display(obj.left) \o <<" ", obj.operator, " ">> \o Display(obj.right)
         IN IF obj.has_not THEN <<"NOT", " ", "(">> \o infix \o <<")">> ELSE infix

\* C10: str() of a node is its canonical display.
C10_Display ==
    ret.call = "str" => (ret.raised = "" /\ ret.value = Display(node))

\* ---------------------------------------------------- claims on trees

\* The left spine of a node carries one negation, on its leaf.
RECURSIVE NegatesFirstLeafOnly(_)
NegatesFirstLeafOnly(obj) ==
    IF IsLeaf(obj) THEN obj.has_not
    ELSE ~obj.has_not /\ NegatesFirstLeafOnly(obj.left)

\* A text NOT t OP rest, t an identifier: the NOT is applied to t alone.
NotScope ==
    (/\ tree.cls = "Tree"
     /\ Len(text) >= 4
     /\ text[1] \in TILDE /\ text[2] \in Names
     /\ \E level \in DOMAIN Spellings : IsSpelling(level, text[3]))
    => NegatesFirstLeafOnly(tree.root)

\* C2: NOT binds to the single term after it: `not a or b` is
\* OR(negated a, b), functional form `or(not(a), b)`, and in any
\* `NOT t OP rest` the negation is applied to t alone.
C2_NotBindsToTerm ==
    /\ NotScope
    /\ (tree.cls = "Tree" /\ text = <<"not", "a", "or", "b">>)
       => /\ tree.root = Expression_new("OR", Variable_new("a", TRUE),
                                        Variable_new("b", FALSE), FALSE)
          /\ ret.call = "functional"
             => /\ ret.raised = ""
                /\ ret.value = <<"or", "(", "not", "(", "a", ")", ",", " ", "b", ")">>

\* The bit of weight 2^k in i.
Bit(i, k) == (i \div (2 ^ k)) % 2

\* C4: Tree.evaluate yields 2^n rows for n distinct variables; in row i
\* variables[j] is bit n-1-j of i; the assignments are pairwise distinct
\* and cover every bit pattern; each result is evaluate(root, assignment).
\* LogicTree.evaluate does the same on the trees of its own family, those
\* of OR and AND.
C4_Enumerate ==
    (/\ ret.call = "evaluate"
     /\ \/ tree.cls = "Tree"
        \/ tree.cls = "LogicTree" /\ OperatorsIn(tree.root) \subseteq {"OR", "AND"})
    => LET names == LeafNames(tree.root)
           n == Cardinality(names)
           rows == ret.value
       IN /\ ret.raised = ""
          /\ Len(tree.variables) = n
          /\ Len(rows) = 2 ^ n
          /\ \A i \in 0..(2 ^ n - 1) :
                /\ DOMAIN rows[i + 1].truth_values = names
                /\ \A j \in 0..(n - 1) :
                      rows[i + 1].truth_values[tree.variables[j + 1]]
                          = (Bit(i, n - 1 - j) = 1)
                /\ Ok(rows[i + 1].truth_value)
                       = evaluate(tree.root, rows[i + 1].truth_values)
          /\ \A i, k \in DOMAIN rows :
                i # k => rows[i].truth_values # rows[k].truth_values
          /\ {rows[i].truth_values : i \in DOMAIN rows} = [names -> BOOLEAN]

\* `a and b or a and c` was enumerated: 8 rows, and the row a=1, b=0, c=1
\* (row 5) is true.
C4_Witness ==
    /\ tree.cls = "Tree"
    /\ text = <<"a", "and", "b", "or", "a", "and", "c">>
    /\ ret.call = "evaluate"
    /\ ret.raised = ""
    /\ Len(ret.value) = 8
    /\ ret.value[6].truth_values = [a |-> TRUE, b |-> FALSE, c |-> TRUE]
    /\ ret.value[6].truth_value = TRUE

\* The text is NOT words and then one identifier.
IsNegatedIdentifier(words) ==
    /\ Len(words) >= 1
    /\ words[Len(words)] \in Names
    /\ \A p \in 1..(Len(words) - 1) : words[p] \in TILDE

\* C5: a text of k NOTs and one identifier builds a tree whose root is the
\* Leaf of that name, negated iff k is odd; `not a` displays as NOT a with
\* functional form not(a).
C5_NegatedIdentifier ==
    IsNegatedIdentifier(text)
    => /\ ~(ret.call = "Tree" /\ ret.raised # "")
       /\ tree.cls = "Tree"
          => /\ tree.root = Variable_new(text[Len(text)], (Len(text) - 1) % 2 = 1)
             /\ (text = <<"not", "a">> /\ ret.call = "str")
                => ret.value = <<"NOT", " ", "a">>
             /\ (text = <<"not", "a">> /\ ret.call = "functional")
                => ret.value = <<"not", "(", "a", ")">>

\* Precedence, loosest first.
Precedence == <<"OR", "AND", "XOR", "XNOR", "NOR", "NAND">>

Level(operator) == CHOOSE n \in DOMAIN Precedence : Precedence[n] = operator

\* Every operation's left operand binds at least as tightly as it does,
\* its right operand more tightly; nothing is negated.
RECURSIVE FollowsPrecedence(_)
FollowsPrecedence(obj) ==
    \/ IsLeaf(obj) /\ ~obj.has_not
    \/ /\ ~IsLeaf(obj)
       /\ ~obj.has_not
       /\ IsLeaf(obj.left) \/ Level(obj.left.operator) >= Level(obj.operator)
       /\ IsLeaf(obj.right) \/ Level(obj.right.operator) > Level(obj.operator)
       /\ FollowsPrecedence(obj.left)
       /\ FollowsPrecedence(obj.right)

\* The names and operators of a node read left to right.
RECURSIVE InOrder(_)
InOrder(obj) ==
    IF IsLeaf(obj) THEN <<CHOOSE n \in LeafNames(obj) : TRUE>>
    ELSE InOrder(obj.left) \o <<obj.operator>> \o InOrder(obj.right)

\* The operator a word spells, or the word itself.
Spelled(word) ==
    IF \E level \in DOMAIN Spellings : IsSpelling(level, word)
    THEN Precedence[CHOOSE level \in DOMAIN Spellings : IsSpelling(level, word)]
    ELSE word

\* A text of identifiers and binary operators only.
IsPlain(words) ==
    \A p \in DOMAIN words :
        IF p % 2 = 1 THEN words[p] \in Names
        ELSE \E level \in DOMAIN Spellings : IsSpelling(level, words[p])

Leaf(name) == Variable_new(name, FALSE)

Operation(operator, left, right) == Expression_new(operator, left, right, FALSE)

\* The result column of a table.
Column(rows) == [i \in DOMAIN rows |-> rows[i].truth_value]

\* C7: binary operators parse with the precedence OR, AND, XOR, XNOR,
\* NOR, NAND (loosest first), left-associative, a group overriding it;
\* `a and b or a and c` and `a * (b + c)` have the same table.
C7_Precedence ==
    tree.cls = "Tree"
    => /\ IsPlain(text)
          => /\ FollowsPrecedence(tree.root)
             /\ InOrder(tree.root) = [p \in DOMAIN text |-> Spelled(text[p])]
       /\ text = <<"a", "or", "b", "and", "c">>
          => tree.root = Operation("OR", Leaf("a"),
                                   Operation("AND", Leaf("b"), Leaf("c")))
       /\ text = <<"a", "or", "b", "or", "c">>
          => tree.root = Operation("OR", Operation("OR", Leaf("a"), Leaf("b")),
                                   Leaf("c"))
       /\ text = <<"a", "*", "(", "b", "+", "c", ")">>
          => tree.root = Operation("AND", Leaf("a"),
                                   Operation("OR", Leaf("b"), Leaf("c")))
       /\ (text = <<"a", "and", "b", "or", "a", "and", "c">> /\ ret.call = "evaluate")
          => /\ ret.raised = ""
             /\ \A other \in Tree_init(<<"a", "*", "(", "b", "+", "c", ")">>) :
                   /\ other.raised = ""
                   /\ Tree_evaluate(other.value).raised = ""
                   /\ Column(Tree_evaluate(other.value).value) = Column(ret.value)

\* `a * (b + c)` was parsed to AND(a, OR(b, c)) and enumerated.
C7_Witness ==
    /\ tree.cls = "Tree"
    /\ text = <<"a", "*", "(", "b", "+", "c", ")">>
    /\ tree.root = Operation("AND", Leaf("a"), Operation("OR", Leaf("b"), Leaf("c")))
    /\ ret.call = "evaluate"
    /\ ret.raised = ""

\* C8: parsing the display string of a parsed tree succeeds and yields a
\* tree that evaluates as the original does on every assignment.
C8_ParseDisplay ==
    ret.call = "parse(str)"
    => /\ ret.raised = ""
       /\ \A truth_values \in [LeafNames(tree.root) -> BOOLEAN] :
             evaluate(ret.value.root, truth_values) = evaluate(tree.root, truth_values)

\* C9: a tree's variables are the names of its root's leaves, without
\* duplicates, ascending, after construction and after every call.
C9_Variables ==
    tree.cls # "NoneType"
    => /\ {tree.variables[p] : p \in DOMAIN tree.variables} = LeafNames(tree.root)
       /\ \A p, q \in DOMAIN tree.variables :
             p < q => Rank(tree.variables[p]) < Rank(tree.variables[q])

\* `b or a or b` has the variables a, b, and still has them after simplify.
C9_Witness ==
    /\ tree.cls = "Tree"
    /\ text = <<"b", "or", "a", "or", "b">>
    /\ tree.variables = <<"a", "b">>
    /\ ret.call = "simplify"
    /\ ret.raised = ""

\* The prefix-call form of a node: name or not(name) for a leaf,
\* op(left, right) with the operator in lower case for an operation,
\* wrapped once in not(...) when the operation is negated.
RECURSIVE ToFunctional(_)
ToFunctional(obj) ==
    IF IsLeaf(obj)
    THEN (IF obj.has_not
          THEN <<"not", "(", CHOOSE n \in LeafNames(obj) : TRUE, ")">>
          ELSE <<CHOOSE n \in LeafNames(obj) : TRUE>>)
    ELSE LET call == <<lower(obj.operator), "(">> \o ToFunctional(obj.left)
                       \o <<",", " ">> \o ToFunctional(obj.right) \o <<")">>
         IN IF obj.has_not THEN <<"not", "(">> \o call \o <<")">> ELSE call

\* C11: functional() of a tree's root is its prefix-call form with the
\* operator name in lower case; the tree of `a or b` renders as or(a, b).
C11_Functional ==
    ret.call = "functional"
    => /\ ret.raised = ""
       /\ ret.value = ToFunctional(tree.root)
       /\ text = <<"a", "or", "b">>
          => ret.value = <<"or", "(", "a", ",", " ", "b", ")">>

\* The words of one alphanumeric character.
SingleCharacters == {"a", "b", "c", "1"}

\* A text of single-character identifiers and binary operators only.
IsPlainSingle(words) ==
    /\ words # <<>>
    /\ \A p \in DOMAIN words :
          IF p % 2 = 1 THEN words[p] \in SingleCharacters
          ELSE \E level \in DOMAIN Spellings : IsSpelling(level, words[p])

\* C12: an identifier is one alphanumeric character: a text with a longer
\* identifier (`ab or c`) builds no tree and raises, no tree has a leaf of
\* a longer name, and a single letter or digit is accepted as a leaf.
C12_Identifiers ==
    /\ (\E p \in DOMAIN text : text[p] = "ab")
       => /\ tree.cls = "NoneType"
          /\ ret.call \in {"Tree", "LogicTree"} => ret.raised = "ValueError"
    /\ tree.cls # "NoneType" => LeafNames(tree.root) \subseteq SingleCharacters
    /\ (IsPlainSingle(text) /\ Len(text) > 1 /\ ret.call \in {"Tree", "LogicTree"})
       => ret.raised = ""

\* The tokens that spell a binary operator.
OperatorTokens ==
    UNION {{Spellings[level][n] : n \in DOMAIN Spellings[level]} :
              level \in DOMAIN Spellings}

\* Two binary operators in a row: next to each other, unless they are the
\* one operator || or &&, or with a blank between them.
ConsecutiveOperators(chars) ==
    \E p \in DOMAIN chars :
        /\ chars[p] \in OperatorTokens
        /\ \/ /\ p + 1 \in DOMAIN chars
              /\ chars[p + 1] \in OperatorTokens
              /\ ~(chars[p] = chars[p + 1] /\ chars[p] \in {"|", "&"})
           \/ /\ p + 2 \in DOMAIN chars
              /\ chars[p + 1] = " "
              /\ chars[p + 2] \in OperatorTokens

\* Every closing bracket closes the last open bracket of its kind, and
\* none is left open.
RECURSIVE Balanced(_, _)
Balanced(chars, open) ==
    IF chars = <<>> THEN open = <<>>
    ELSE IF Head(chars) \in {"(", "["}
    THEN Balanced(Tail(chars), <<Head(chars)>> \o open)
    ELSE IF Head(chars) \in {")", "]"}
    THEN /\ open # <<>>
         /\ Head(open) = (IF Head(chars) = ")" THEN "(" ELSE "[")
         /\ Balanced(Tail(chars), Tail(open))
    ELSE Balanced(Tail(chars), open)

\* No tree was built from the text, and building one raises ValueError.
Rejected ==
    /\ tree.cls = "NoneType"
    /\ ret.call \in {"Tree", "LogicTree"} => ret.raised = "ValueError"

\* Malformed texts other than those with two operators in a row.
OtherwiseMalformed ==
    \/ ~Balanced(text, <<>>)
    \/ \E p \in DOMAIN text : text[p] = "$"
    \/ \A p \in DOMAIN text : text[p] = " "

\* C13: a text with two binary operators in a row, with unbalanced or
\* mismatched brackets, with an unknown token, or empty or blank, builds
\* no tree: the constructor raises ValueError.
C13_Malformed ==
    (ConsecutiveOperators(text) \/ OtherwiseMalformed) => Rejected

\* The spellings of each operator, in the order of Precedence, each as its
\* tokens.
ListedSpellings ==
    <<  {<<"+">>, <<"|">>, <<"|", "|">>, <<"or">>, <<"OR">>, <<"Or">>},
        {<<"*">>, <<"&">>, <<"&", "&">>, <<"and">>, <<"AND">>, <<"And">>},
        {<<"^">>, <<"xor">>, <<"XOR">>},
        {<<"-^">>, <<"xnor">>, <<"XNOR">>},
        {<<"-+">>, <<"nor">>, <<"NOR">>},
        {<<"-*">>, <<"nand">>, <<"NAND">>}  >>

ListedNots == {"not", "NOT", "Not", "~", "!"}

\* Building a tree from the text did not fail.
Accepted == ~(ret.call \in {"Tree", "LogicTree"} /\ ret.raised # "")

\* C14: every listed spelling of an operator, in any letter case, is
\* accepted and gives a tree that evaluates as the tree of any other
\* spelling of that operator does: a OP b to the operator's table, and
\* NOT a or b to (not a) or b.
C14_Synonyms ==
    /\ \A level \in DOMAIN ListedSpellings :
          \A spelling \in ListedSpellings[level] :
              text = <<"a">> \o spelling \o <<"b">>
              => /\ Accepted
                 /\ tree.cls = "Tree"
                    => \A truth_values \in [{"a", "b"} -> BOOLEAN] :
                          evaluate(tree.root, truth_values)
                              = Ok(<<truth_values["a"], truth_values["b"]>>
                                       \in TrueAt(Precedence[level]))
    /\ \A word \in ListedNots :
          text = <<word, "a", "or", "b">>
          => /\ Accepted
             /\ tree.cls = "Tree"
                => \A truth_values \in [{"a", "b"} -> BOOLEAN] :
                      evaluate(tree.root, truth_values)
                          = Ok(~truth_values["a"] \/ truth_values["b"])

\* The assignment of row i: variables[j] (from 0) is bit n-1-j of i.
RowAssignment(variables, i) ==
    [name \in {variables[p] : p \in DOMAIN variables} |->
        Bit(i, Len(variables) - (CHOOSE p \in DOMAIN variables : variables[p] = name)) = 1]

\* The rows at which the tree evaluates to `value`.
RowsAt(value) ==
    {i \in 0..(2 ^ Len(tree.variables) - 1) :
        evaluate(tree.root, RowAssignment(tree.variables, i)) = Ok(value)}

\* The list holds exactly the numbers of the set, ascending.
IsAscendingListOf(list, set) ==
    /\ {list[p] : p \in DOMAIN list} = set
    /\ \A p, q \in DOMAIN list : p < q => list[p] < list[q]

\* C15: simplify calls the minimizer twice: with the variables and the
\* ascending rows where the tree is true, then with the variables, the
\* ascending rows where it is false and is_maxterm; the two lists
\* partition the rows.  It returns the first answer for get_minterm=True,
\* the second for get_minterm=False, otherwise the shorter of the two and
\* the first when they are equally long.
C15_Simplify ==
    (/\ ret.call = "simplify"
     /\ \/ tree.cls = "Tree"
        \/ tree.cls = "LogicTree" /\ OperatorsIn(tree.root) \subseteq {"OR", "AND"})
    => LET calls == ret.arg.calls
           minterm == ret.arg.minterm_qm
           maxterm == ret.arg.maxterm_qm
       IN /\ ret.raised = ""
          /\ Len(calls) = 2
          /\ calls[1].variables = tree.variables
          /\ calls[2].variables = tree.variables
          /\ ~calls[1].is_maxterm
          /\ calls[2].is_maxterm
          /\ IsAscendingListOf(calls[1].true_at, RowsAt(TRUE))
          /\ IsAscendingListOf(calls[2].true_at, RowsAt(FALSE))
          /\ RowsAt(TRUE) \cup RowsAt(FALSE) = 0..(2 ^ Len(tree.variables) - 1)
          /\ RowsAt(TRUE) \cap RowsAt(FALSE) = {}
          /\ ret.value = IF "get_minterm" \in DOMAIN ret.arg.kwargs
                         THEN (IF ret.arg.kwargs["get_minterm"] THEN minterm ELSE maxterm)
                         ELSE IF len(maxterm) < len(minterm) THEN maxterm
                         ELSE minterm

\* `a and b or a and c` was simplified with no mode and two answers of
\* the same length: the minimizer got rows 5, 6, 7 and rows 0..4, and the
\* minterm answer was returned.
C15_Witness ==
    /\ tree.cls = "Tree"
    /\ text = <<"a", "and", "b", "or", "a", "and", "c">>
    /\ ret.call = "simplify"
    /\ ret.arg.kwargs = <<>>
    /\ ret.arg.calls[1].true_at = <<5, 6, 7>>
    /\ ret.arg.calls[2].true_at = <<0, 1, 2, 3, 4>>
    /\ len(ret.arg.minterm_qm) = len(ret.arg.maxterm_qm)
    /\ ret.value = ret.arg.minterm_qm

\* The mapping lacks a required key, or says neither or both of leaf and
\* operation, at the root or at a nested left / right; `name` is the key
\* of a leaf's name.
RECURSIVE Malformed(_, _)
Malformed(json, name) ==
    LET keys == DOMAIN json
    IN \/ (name \in keys) = ("operator" \in keys)
       \/ name \in keys /\ "has_not" \notin keys
       \/ /\ "operator" \in keys
          /\ \/ ~({"left", "right", "has_not"} \subseteq keys)
             \/ Malformed(json["left"], name)
             \/ Malformed(json["right"], name)

\* C16: loading a malformed mapping raises and builds no node.
C16_MalformedInterchange ==
    /\ (ret.call = "load" /\ Malformed(ret.arg, "variable"))
       => ret.raised \in {"KeyError", "AttributeError"}
    /\ (ret.call = "load_logic" /\ Malformed(ret.arg, "value"))
       => ret.raised \in {"KeyError", "AttributeError"}

\* C17: an operation whose operator is none of the six codes cannot be
\* constructed, directly or from a mapping: the constructor raises, no such
\* node exists, and none is evaluated to a boolean.
C17_InvalidOperator ==
    /\ node.cls = "Expression" => OperatorsIn(node) \subseteq OperatorSet
    /\ (/\ ret.call = "load"
        /\ {"operator", "left", "right"} \subseteq DOMAIN ret.arg
        /\ ret.arg["operator"] \notin OperatorSet)
       => ret.raised # ""
    /\ (/\ ret.call = "evaluate"
        /\ node.cls = "Expression"
        /\ ~(OperatorsIn(node) \subseteq OperatorSet))
       => ret.raised # ""

\* The node carries the negated flag of its mapping, at every position.
RECURSIVE KeepsNegated(_, _)
KeepsNegated(obj, json) ==
    /\ obj.has_not = json["has_not"]
    /\ IsLeaf(obj)
       \/ /\ obj.operator = json["operator"]
          /\ KeepsNegated(obj.left, json["left"])
          /\ KeepsNegated(obj.right, json["right"])

\* C18: a node loaded from a mapping has the mapping's negated flag
\* whatever its operator: x OP y parsed by LogicTree is an operation OP,
\* not negated, and evaluates to OP's table on every assignment (a nand b
\* is false only where a and b are true).
C18_NegatedIndependent ==
    tree.cls = "LogicTree"
    => /\ KeepsNegated(tree.root, tree.expression)
       /\ (IsPlain(text) /\ Len(text) = 3)
          => /\ tree.root.operator = Spelled(text[2])
             /\ ~tree.root.has_not
             /\ ret.call = "evaluate"
                => /\ ret.raised = ""
                   /\ \A i \in DOMAIN ret.value :
                         ret.value[i].truth_value
                             = (<<ret.value[i].truth_values[text[1]],
                                  ret.value[i].truth_values[text[3]]>>
                                    \in TrueAt(tree.root.operator))

====
